---- MODULE Spec2Model ----
(***************************************************************************)
(* Model of package safeslice (src/safeslice.go).                          *)
(*                                                                         *)
(* A Go slice is a triple (backing array, len, cap).  The backing arrays   *)
(* live in `heap`; a slice value is a record [a, len, cap] whose field a   *)
(* names the backing array (0: no backing array, i.e. nil or a zero-sized  *)
(* slice).  Every slice of this package starts at offset 0 of its array.   *)
(* Cells are 1-based in the model: Go index i is cell i+1.                 *)
(*                                                                         *)
(* Elements are one machine word, as in the tests (int, *myValue), which   *)
(* fixes the capacities append picks.  A panic ends the program: nothing   *)
(* in the package recovers.  The caller tracks one slice returned by Get,  *)
(* any one of them; the container never looks at the elements, so two      *)
(* element values tell every position from the others.                     *)
(***************************************************************************)
EXTENDS Integers, Sequences, FiniteSets, TLC

\* ---------------------------------------------------------------- bounds
MaxLen    == 3   \* the caller appends only while len(data) < MaxLen
NumValues == 2   \* distinct element values the caller appends

Values   == 1..NumValues
Zero     == 0          \* the zero value of T
AllocIds == {1, 2, 3}  \* the backing arrays of data and of the held slice, one being built

VARIABLES
    heap,             \* backing arrays: AllocIds -> sequence of cells (<<>>: free)
    data,             \* SafeSlice.data
    appendOnlyAlloc,  \* SafeSlice.appendOnlyAlloc
    clearsTail,       \* the slices library in the build zeroes the cells Delete vacates
    view,             \* a slice returned by Get that the caller still holds
    rng,              \* the caller's `for ... range` loop over that slice, if one runs
    handed,           \* history: live backing arrays some Get has returned
    ref,              \* history: the same calls applied to a plain sequence
    sinceGet,         \* history: Remove and Swap(i # j) calls since the last Get that
                      \* changed or replaced data (counted up to 2)
    last,             \* history: the last call and its outcome: op, args ("in":
                      \* every index in [0, len), else "out"), self (i = j), panic,
                      \* copied, dirtied (a cell of a backing array some Get had
                      \* returned was changed), again (a Get right after a Get)
    thr               \* two threads sharing the container (the concurrent
                      \* specification only): the position pc and the locals i, j,
                      \* swap of the thread in Remove or Swap, the position rpc of
                      \* the thread in Get, and history: raced (a thread took a
                      \* step while the other was inside a call)

vars == <<heap, data, appendOnlyAlloc, clearsTail, view, rng, handed, ref, sinceGet, last, thr>>

\* ------------------------------------------------------- Go slice helpers
NilSlice == [a |-> 0, len |-> 0, cap |-> 0]

Zeros(n) == [k \in 1..n |-> Zero]

\* the elements s[0:len(s)]
Content(h, s) == IF s.len = 0 THEN <<>> ELSE SubSeq(h[s.a], 1, s.len)

\* an unused backing array identity
Fresh(h) == CHOOSE a \in AllocIds : h[a] = <<>> /\ \A b \in AllocIds : h[b] = <<>> => a <= b

\* The capacity the runtime gives a slice of capacity old < 256 grown to hold
\* need elements: need if that is more than double, else double, rounded up
\* to an allocation size class.  Elements are one machine word (int, *T).
SizeClasses == {1, 2, 3, 4, 6, 8, 10, 12, 14, 16}
RoundUp(n) == CHOOSE c \in SizeClasses : c >= n /\ \A b \in SizeClasses : b >= n => c <= b
GrowCap(old, need) == RoundUp(IF need > 2 * old THEN need ELSE 2 * old)

\* make([]T, n) holding the elements els in front, zero after; n = 0 allocates nothing
MakeSlice(h, els, n) ==
    IF n = 0
    THEN [heap |-> h, sl |-> [a |-> 0, len |-> Len(els), cap |-> 0]]
    ELSE [heap |-> [h EXCEPT ![Fresh(h)] = els \o Zeros(n - Len(els))],
          sl   |-> [a |-> Fresh(h), len |-> Len(els), cap |-> n]]

\* faulty variant: the grown slice is returned without the new elements stored
goAppend_DropsOnGrow(h, s, els) ==
    IF s.len + Len(els) <= s.cap
    THEN [heap |-> IF s.a = 0 THEN h ELSE
                   [h EXCEPT ![s.a] = [k \in 1..s.cap |->
                       IF k > s.len /\ k <= s.len + Len(els) THEN els[k - s.len] ELSE @[k]]],
          sl   |-> [s EXCEPT !.len = s.len + Len(els)]]
    ELSE LET m == MakeSlice(h, Content(h, s), GrowCap(s.cap, s.len + Len(els)))
         IN  [heap |-> m.heap, sl |-> [m.sl EXCEPT !.len = s.len + Len(els)]]

\* the builtin append(s, els...)
goAppend(h, s, els) ==
    IF s.len + Len(els) <= s.cap
    THEN [heap |-> IF s.a = 0 THEN h ELSE
                   [h EXCEPT ![s.a] = [k \in 1..s.cap |->
                       IF k > s.len /\ k <= s.len + Len(els) THEN els[k - s.len] ELSE @[k]]],
          sl   |-> [s EXCEPT !.len = s.len + Len(els)]]
    ELSE MakeSlice(h, Content(h, s) \o els, GrowCap(s.cap, s.len + Len(els)))

\* faulty variant: the slice is only cut short, nothing is moved down
slicesDelete_Truncates(h, s, i, j, clr) ==
    IF i < 0 \/ i > j \/ j > s.len
    THEN [panic |-> TRUE, heap |-> h, sl |-> s]
    ELSE [panic |-> FALSE, heap |-> h, sl |-> [s EXCEPT !.len = s.len - (j - i)]]

\* slices.Delete(s, i, j): s[i:j] removed in place; clr: this version of the
\* library zeroes the cells it vacates (older versions leave them as they were)
slicesDelete(h, s, i, j, clr) ==
    IF i < 0 \/ i > j \/ j > s.len
    THEN [panic |-> TRUE, heap |-> h, sl |-> s]
    ELSE LET n == s.len - (j - i)
         IN  [panic   |-> FALSE,
              heap    |-> IF s.a = 0 THEN h ELSE
                          [h EXCEPT ![s.a] = [k \in 1..s.cap |->
                              IF k > i /\ k <= n THEN @[k + (j - i)]
                              ELSE IF k > n /\ k <= s.len /\ clr THEN Zero
                              ELSE @[k]]],
              sl      |-> [s EXCEPT !.len = n]]

\* ------------------------------------------------------------ the package
\* faulty variant: the second copy starts at s[i:] instead of s[i+1:]
copyDelete_KeepsIndex(h, s, i) ==
    IF s.len - 1 < 0 \/ i < 0 \/ i > s.len - 1 \/ i > s.cap
    THEN [panic |-> TRUE, heap |-> h, sl |-> s]
    ELSE LET m == MakeSlice(h, [k \in 1..(s.len - 1) |-> h[s.a][k]], s.len - 1)
         IN  [panic |-> FALSE, heap |-> m.heap, sl |-> m.sl]

\* faulty variant: no b is made, the elements are moved down inside s
copyDelete_InPlace(h, s, i) ==
    IF s.len - 1 < 0 \/ i < 0 \/ i > s.len - 1 \/ i > s.cap
    THEN [panic |-> TRUE, heap |-> h, sl |-> s]
    ELSE [panic |-> FALSE,
          heap  |-> [h EXCEPT ![s.a] = [k \in 1..s.cap |->
                        IF k > i /\ k < s.len THEN @[k + 1] ELSE @[k]]],
          sl    |-> [s EXCEPT !.len = s.len - 1]]

\* faulty variant: b := make([]T, len(s)), one cell too many
copyDelete_SameLen(h, s, i) ==
    IF i < 0 \/ i > s.len \/ i > s.cap
    THEN [panic |-> TRUE, heap |-> h, sl |-> s]
    ELSE LET b == [k \in 1..s.len |-> IF k <= i THEN h[s.a][k]
                                      ELSE IF k < s.len THEN h[s.a][k + 1] ELSE Zero]
             m == MakeSlice(h, b, s.len)
         IN  [panic |-> FALSE, heap |-> m.heap, sl |-> m.sl]

\* b := make([]T, len(s)-1) panics on a negative length; b[:i] and s[:i] panic
\* unless 0 <= i <= cap; then the two copies fill b
copyDeleteFromArray(h, s, i) ==
    IF s.len - 1 < 0 \/ i < 0 \/ i > s.len - 1 \/ i > s.cap
    THEN [panic |-> TRUE, heap |-> h, sl |-> s]
    ELSE LET b == [k \in 1..(s.len - 1) |-> IF k <= i THEN h[s.a][k] ELSE h[s.a][k + 1]]
             m == MakeSlice(h, b, s.len - 1)
         IN  [panic |-> FALSE, heap |-> m.heap, sl |-> m.sl]


New == [data |-> NilSlice, appendOnlyAlloc |-> FALSE]

\* The methods take the receiver and the heap as m = [heap, data, appendOnlyAlloc]
\* and give them back with the call's outcome: panic, and copied (s.data was
\* replaced by a fresh copy).
Outcome(h, d, f, p, c) ==
    [heap |-> h, data |-> d, appendOnlyAlloc |-> f, panic |-> p, copied |-> c]

\* faulty variant: Append clears appendOnlyAlloc
AppendElem_ClearsFlag(m, elem) ==
    LET r == goAppend(m.heap, m.data, <<elem>>)
    IN  Outcome(r.heap, r.sl, FALSE, FALSE, FALSE)

AppendElem(m, elem) ==
    LET r == goAppend(m.heap, m.data, <<elem>>)
    IN  Outcome(r.heap, r.sl, m.appendOnlyAlloc, FALSE, FALSE)

\* faulty variant: Remove never copies
Remove_NoCopy(m, index, clr) ==
    LET r == slicesDelete(m.heap, m.data, index, index + 1, clr)
    IN  Outcome(r.heap, r.sl, m.appendOnlyAlloc, r.panic, FALSE)

\* faulty variant: the copying branch leaves appendOnlyAlloc set
Remove_KeepsFlag(m, index, clr) ==
    IF m.appendOnlyAlloc
    THEN LET r == copyDeleteFromArray(m.heap, m.data, index)
         IN  IF r.panic
             THEN Outcome(m.heap, m.data, m.appendOnlyAlloc, TRUE, FALSE)
             ELSE Outcome(r.heap, r.sl, m.appendOnlyAlloc, FALSE, TRUE)
    ELSE LET r == slicesDelete(m.heap, m.data, index, index + 1, clr)
         IN  Outcome(r.heap, r.sl, m.appendOnlyAlloc, r.panic, FALSE)

\* faulty variant: the copying branch clears appendOnlyAlloc before it copies
Remove_FlagFirst(m, index, clr) ==
    IF m.appendOnlyAlloc
    THEN LET r == copyDeleteFromArray(m.heap, m.data, index)
         IN  IF r.panic
             THEN Outcome(m.heap, m.data, FALSE, TRUE, FALSE)
             ELSE Outcome(r.heap, r.sl, FALSE, FALSE, TRUE)
    ELSE LET r == slicesDelete(m.heap, m.data, index, index + 1, clr)
         IN  Outcome(r.heap, r.sl, m.appendOnlyAlloc, r.panic, FALSE)

\* s.data and the flag are assigned only after copyDeleteFromArray or
\* slices.Delete has returned: a call that panics leaves them as they were
Remove(m, index, clr) ==
    IF m.appendOnlyAlloc
    THEN LET r == copyDeleteFromArray(m.heap, m.data, index)
         IN  IF r.panic
             THEN Outcome(m.heap, m.data, m.appendOnlyAlloc, TRUE, FALSE)
             ELSE Outcome(r.heap, r.sl, FALSE, FALSE, TRUE)
    ELSE LET r == slicesDelete(m.heap, m.data, index, index + 1, clr)
         IN  Outcome(r.heap, r.sl, m.appendOnlyAlloc, r.panic, FALSE)

\* faulty variant: no i == j fast path
Swap_NoSelfCheck(m, i, j) ==
    LET r == IF m.appendOnlyAlloc
             THEN goAppend(m.heap, NilSlice, Content(m.heap, m.data))
             ELSE [heap |-> m.heap, sl |-> m.data]
        d == r.sl
    IN  IF i < 0 \/ i >= d.len \/ j < 0 \/ j >= d.len
        THEN Outcome(r.heap, d, FALSE, TRUE, m.appendOnlyAlloc)
        ELSE Outcome([r.heap EXCEPT ![d.a][i + 1] = r.heap[d.a][j + 1],
                                    ![d.a][j + 1] = r.heap[d.a][i + 1]],
                     d, FALSE, FALSE, m.appendOnlyAlloc)

\* faulty variant: s.data[j] is stored from s.data[i] after s.data[i] was overwritten
Swap_NoTemp(m, i, j) ==
    IF i = j
    THEN Outcome(m.heap, m.data, m.appendOnlyAlloc, FALSE, FALSE)
    ELSE LET r == IF m.appendOnlyAlloc
                  THEN goAppend(m.heap, NilSlice, Content(m.heap, m.data))
                  ELSE [heap |-> m.heap, sl |-> m.data]
             d == r.sl
         IN  IF i < 0 \/ i >= d.len \/ j < 0 \/ j >= d.len
             THEN Outcome(r.heap, d, FALSE, TRUE, m.appendOnlyAlloc)
             ELSE Outcome([r.heap EXCEPT ![d.a][i + 1] = r.heap[d.a][j + 1]],
                          d, FALSE, FALSE, m.appendOnlyAlloc)

\* faulty variant: an index out of range makes Swap return without swapping
Swap_IgnoresBadIndex(m, i, j) ==
    IF i = j \/ i < 0 \/ i >= m.data.len \/ j < 0 \/ j >= m.data.len
    THEN Outcome(m.heap, m.data, m.appendOnlyAlloc, FALSE, FALSE)
    ELSE LET r == IF m.appendOnlyAlloc
                  THEN goAppend(m.heap, NilSlice, Content(m.heap, m.data))
                  ELSE [heap |-> m.heap, sl |-> m.data]
             d == r.sl
         IN  Outcome([r.heap EXCEPT ![d.a][i + 1] = r.heap[d.a][j + 1],
                                    ![d.a][j + 1] = r.heap[d.a][i + 1]],
                     d, FALSE, FALSE, m.appendOnlyAlloc)

\* faulty variant: with i in range and j out of range, s.data[i] is
\* overwritten before s.data[j] is read
Swap_HalfSwaps(m, i, j) ==
    IF i = j
    THEN Outcome(m.heap, m.data, m.appendOnlyAlloc, FALSE, FALSE)
    ELSE LET r == IF m.appendOnlyAlloc
                  THEN goAppend(m.heap, NilSlice, Content(m.heap, m.data))
                  ELSE [heap |-> m.heap, sl |-> m.data]
             d == r.sl
         IN  IF i < 0 \/ i >= d.len
             THEN Outcome(r.heap, d, FALSE, TRUE, m.appendOnlyAlloc)
             ELSE IF j < 0 \/ j >= d.len
             THEN Outcome([r.heap EXCEPT ![d.a][i + 1] = Zero], d, FALSE, TRUE, m.appendOnlyAlloc)
             ELSE Outcome([r.heap EXCEPT ![d.a][i + 1] = r.heap[d.a][j + 1],
                                         ![d.a][j + 1] = r.heap[d.a][i + 1]],
                          d, FALSE, FALSE, m.appendOnlyAlloc)

\* faulty variant: the shared array is never copied, only the flag is cleared
Swap_NoCopy(m, i, j) ==
    IF i = j
    THEN Outcome(m.heap, m.data, m.appendOnlyAlloc, FALSE, FALSE)
    ELSE LET d == m.data
         IN  IF i < 0 \/ i >= d.len \/ j < 0 \/ j >= d.len
             THEN Outcome(m.heap, d, FALSE, TRUE, FALSE)
             ELSE Outcome([m.heap EXCEPT ![d.a][i + 1] = m.heap[d.a][j + 1],
                                         ![d.a][j + 1] = m.heap[d.a][i + 1]],
                          d, FALSE, FALSE, FALSE)

\* faulty variant: the copying branch leaves appendOnlyAlloc set
Swap_KeepsFlag(m, i, j) ==
    IF i = j
    THEN Outcome(m.heap, m.data, m.appendOnlyAlloc, FALSE, FALSE)
    ELSE LET r == IF m.appendOnlyAlloc
                  THEN goAppend(m.heap, NilSlice, Content(m.heap, m.data))
                  ELSE [heap |-> m.heap, sl |-> m.data]
             d == r.sl
         IN  IF i < 0 \/ i >= d.len \/ j < 0 \/ j >= d.len
             THEN Outcome(r.heap, d, m.appendOnlyAlloc, TRUE, m.appendOnlyAlloc)
             ELSE Outcome([r.heap EXCEPT ![d.a][i + 1] = r.heap[d.a][j + 1],
                                         ![d.a][j + 1] = r.heap[d.a][i + 1]],
                          d, m.appendOnlyAlloc, FALSE, m.appendOnlyAlloc)

\* i == j returns at once; otherwise the copy is made and the flag cleared
\* before s.data[i] and s.data[j] are read, and both are read (each read
\* panics on an index out of range) before s.data[j] is written
Swap(m, i, j) ==
    IF i = j
    THEN Outcome(m.heap, m.data, m.appendOnlyAlloc, FALSE, FALSE)
    ELSE LET r == IF m.appendOnlyAlloc
                  THEN goAppend(m.heap, NilSlice, Content(m.heap, m.data))
                  ELSE [heap |-> m.heap, sl |-> m.data]
             d == r.sl
         IN  IF i < 0 \/ i >= d.len \/ j < 0 \/ j >= d.len
             THEN Outcome(r.heap, d, FALSE, TRUE, m.appendOnlyAlloc)
             ELSE Outcome([r.heap EXCEPT ![d.a][i + 1] = r.heap[d.a][j + 1],
                                         ![d.a][j + 1] = r.heap[d.a][i + 1]],
                          d, FALSE, FALSE, m.appendOnlyAlloc)

\* faulty variant: s.appendOnlyAlloc = !s.appendOnlyAlloc
Get_Toggles(m) ==
    [m     |-> Outcome(m.heap, m.data, ~m.appendOnlyAlloc, FALSE, FALSE),
     slice |-> m.data]

\* faulty variant: the flag is not set
Get_KeepsFlag(m) ==
    [m     |-> Outcome(m.heap, m.data, m.appendOnlyAlloc, FALSE, FALSE),
     slice |-> m.data]

Get(m) ==
    [m     |-> Outcome(m.heap, m.data, TRUE, FALSE, FALSE),
     slice |-> m.data]

\* ------------------------------------------------------------ the caller
Self == [heap |-> heap, data |-> data, appendOnlyAlloc |-> appendOnlyAlloc]

\* the indices in range and the elements of the container
Indices == 0..(data.len - 1)
Elems == Content(heap, data)

\* the caller holds no slice; sl is the slice held, snap its elements when Get returned it
NoView == [held |-> FALSE, sl |-> NilSlice, snap |-> <<>>]

\* no loop runs; kind is the loop the caller is in ("append", "remove": the
\* body of a range loop, "appended", "removed" once it is over; "while",
\* "whilebody", "whiled": the test, the body and the end of the Get/Remove
\* loop), start the elements of the container when the loop began, k counts
\* the iterations done, visited the elements a range loop read
NoRange == [kind |-> "none", start |-> <<>>, k |-> 0, visited |-> <<>>]

Call(op, args, self) == [op |-> op, args |-> args, self |-> self]
InRange(d, i) == i >= 0 /\ i < d.len
Args(ok) == IF ok THEN "in" ELSE "out"
Bump(n) == IF n < 2 THEN n + 1 ELSE 2

\* the same calls on a plain sequence
RefRemove(q, i) == SubSeq(q, 1, i) \o SubSeq(q, i + 2, Len(q))
RefSwap(q, i, j) == [q EXCEPT ![i + 1] = q[j + 1], ![j + 1] = q[i + 1]]

\* backing arrays reachable from the container or from the slice the caller holds
Live(d, v) == {d.a, v.sl.a} \ {0}

\* Addresses are opaque: a reachable backing array is named 1 if the container
\* reaches it, and otherwise by the next free name.
Name(d, v, a) ==
    IF a = 0 THEN 0
    ELSE IF a = d.a THEN 1
    ELSE Cardinality({d.a} \ {0}) + 1

Renamed(d, v, s) == [s EXCEPT !.a = Name(d, v, s.a)]

\* the heap, the receiver's fields and the slice the caller holds become h,
\* d, f and v; unreachable backing arrays are reclaimed
Settle(h, d, f, v) ==
    /\ heap' = [n \in AllocIds |->
                  IF \E a \in Live(d, v) : Name(d, v, a) = n
                  THEN h[CHOOSE a \in Live(d, v) : Name(d, v, a) = n]
                  ELSE <<>>]
    /\ data' = Renamed(d, v, d)
    /\ appendOnlyAlloc' = f
    /\ view' = [v EXCEPT !.sl = Renamed(d, v, v.sl)]
    /\ UNCHANGED clearsTail

\* no thread is inside a call
NoThreads == [pc |-> "idle", i |-> 0, j |-> 0, swap |-> Zero, rpc |-> "idle", raced |-> FALSE]

\* a call returns: the receiver and heap take the outcome r, the caller holds
\* the slice v and runs the loop rg, got are the backing arrays Get handed out,
\* and unreachable backing arrays are reclaimed
Return(r, v, rg, got, call) ==
    /\ Settle(r.heap, r.data, r.appendOnlyAlloc, v)
    /\ rng' = rg
    /\ handed' = {Name(r.data, v, a) : a \in (handed \cup got) \cap Live(r.data, v)}
    /\ last' = [op |-> call.op, args |-> call.args, self |-> call.self,
                panic |-> r.panic, copied |-> r.copied,
                dirtied |-> \E a \in handed : r.heap[a] # heap[a],
                again |-> call.op = "Get" /\ last.op = "Get"]
    /\ UNCHANGED thr

\* the caller is between calls: no loop runs, and no panic has ended the program
Idle == rng.kind = "none" /\ ~last.panic

Init ==
    /\ heap = [a \in AllocIds |-> <<>>]
    /\ data = New.data
    /\ appendOnlyAlloc = New.appendOnlyAlloc
    /\ clearsTail \in BOOLEAN
    /\ view = NoView
    /\ rng = NoRange
    /\ handed = {}
    /\ ref = <<>>
    /\ sinceGet = 0
    /\ last = [op |-> "New", args |-> "in", self |-> FALSE,
               panic |-> FALSE, copied |-> FALSE, dirtied |-> FALSE, again |-> FALSE]
    /\ thr = NoThreads

CallAppend ==
    /\ Idle
    /\ data.len < MaxLen
    /\ \E elem \in Values :
         /\ Return(AppendElem(Self, elem), view, rng, {}, Call("Append", "in", FALSE))
         /\ ref' = ref \o <<elem>>
    /\ UNCHANGED sinceGet

CallRemove ==
    /\ Idle
    /\ \E index \in -1..data.len :
         LET r == Remove(Self, index, clearsTail)
         IN  /\ Return(r, view, rng, {}, Call("Remove", Args(InRange(data, index)), FALSE))
             /\ ref' = IF r.panic THEN ref ELSE RefRemove(ref, index)
    /\ sinceGet' = IF last'.panic THEN sinceGet ELSE Bump(sinceGet)

CallSwap ==
    /\ Idle
    /\ \E i \in -1..data.len, j \in -1..data.len :
         LET r == Swap(Self, i, j)
         IN  /\ Return(r, view, rng, {},
                       Call("Swap", Args(InRange(data, i) /\ InRange(data, j)), i = j))
             /\ ref' = IF r.panic \/ i = j THEN ref ELSE RefSwap(ref, i, j)
             /\ sinceGet' = IF (i # j /\ ~r.panic) \/ r.copied THEN Bump(sinceGet) ELSE sinceGet

\* keep: the caller holds on to the returned slice (letting go of the one held)
CallGet ==
    /\ Idle
    /\ \E keep \in BOOLEAN :
         LET g == Get(Self)
             v == [held |-> TRUE, sl |-> g.slice, snap |-> Content(heap, g.slice)]
         IN  Return(g.m, IF keep THEN v ELSE view, rng, {g.slice.a}, Call("Get", "in", FALSE))
    /\ sinceGet' = 0
    /\ UNCHANGED ref

\* the caller lets go of the slice it holds
Discard ==
    /\ Idle
    /\ view.held
    /\ Return(Outcome(heap, data, appendOnlyAlloc, FALSE, FALSE), NoView, rng, {},
              Call("Discard", "in", FALSE))
    /\ UNCHANGED <<ref, sinceGet>>

\* for ... := range a.Get() { ... }: the range expression is evaluated once,
\* before the first iteration; the loop body is a.Append(value) or a.Remove(0)
RangeBegin ==
    /\ Idle
    /\ \E kind \in {"append", "remove"} :
         LET g == Get(Self)
             v == [held |-> TRUE, sl |-> g.slice, snap |-> Content(heap, g.slice)]
         IN  Return(g.m, v, [kind |-> kind, start |-> v.snap, k |-> 0, visited |-> <<>>], {g.slice.a}, Call("Get", "in", FALSE))
    /\ sinceGet' = 0
    /\ UNCHANGED ref

\* one iteration: the element at index k is read from the ranged slice, then
\* the body runs
RangeStep ==
    /\ rng.kind \in {"append", "remove"}
    /\ ~last.panic
    /\ rng.k < view.sl.len
    /\ LET value == heap[view.sl.a][rng.k + 1]
           r == IF rng.kind = "append" THEN AppendElem(Self, value) ELSE Remove(Self, 0, clearsTail)
           rg == [rng EXCEPT !.k = @ + 1, !.visited = Append(@, value)]
       IN  /\ Return(r, view, rg, {},
                     IF rng.kind = "append" THEN Call("Append", "in", FALSE)
                     ELSE Call("Remove", Args(InRange(data, 0)), FALSE))
           /\ ref' = IF r.panic THEN ref
                     ELSE IF rng.kind = "append" THEN ref \o <<value>> ELSE RefRemove(ref, 0)
           /\ sinceGet' = IF rng.kind = "remove" /\ ~r.panic THEN Bump(sinceGet) ELSE sinceGet

\* the loop is over after len(slice) iterations; the caller lets go of the
\* ranged slice, calls Get as the tests do, and ends
RangeEnd ==
    /\ rng.kind \in {"append", "remove"}
    /\ ~last.panic
    /\ rng.k = view.sl.len
    /\ LET g == Get(Self)
       IN  Return(g.m, [held |-> TRUE, sl |-> g.slice, snap |-> Content(heap, g.slice)],
                  [rng EXCEPT !.kind = IF @ = "append" THEN "appended" ELSE "removed"],
                  {g.slice.a}, Call("Get", "in", FALSE))
    /\ sinceGet' = 0
    /\ UNCHANGED ref

\* for len(a.Get()) > 0 { a.Remove(0) }: the loop condition calls Get before
\* every iteration (the first time it starts the loop: start are the elements
\* then, k counts the Remove calls); the slice it returns is held until the
\* next one; the loop is over ("whiled") when Get returns an empty slice
WhileTest ==
    /\ rng.kind \in {"none", "while"}
    /\ ~last.panic
    /\ LET g == Get(Self)
           v == [held |-> TRUE, sl |-> g.slice, snap |-> Content(heap, g.slice)]
           rg == [kind    |-> IF g.slice.len > 0 THEN "whilebody" ELSE "whiled",
                  start   |-> IF rng.kind = "none" THEN v.snap ELSE rng.start,
                  k       |-> rng.k,
                  visited |-> rng.visited]
       IN  Return(g.m, v, rg, {g.slice.a}, Call("Get", "in", FALSE))
    /\ sinceGet' = 0
    /\ UNCHANGED ref

\* the loop body: a.Remove(0)
WhileBody ==
    /\ rng.kind = "whilebody"
    /\ ~last.panic
    /\ LET r == Remove(Self, 0, clearsTail)
       IN  /\ Return(r, view, [rng EXCEPT !.kind = "while", !.k = @ + 1], {},
                     Call("Remove", Args(InRange(data, 0)), FALSE))
           /\ ref' = IF r.panic THEN ref ELSE RefRemove(ref, 0)
           /\ sinceGet' = IF r.panic THEN sinceGet ELSE Bump(sinceGet)

Next ==
    \/ CallAppend
    \/ CallRemove
    \/ CallSwap
    \/ CallGet
    \/ Discard
    \/ RangeBegin
    \/ RangeStep
    \/ RangeEnd
    \/ WhileTest
    \/ WhileBody

Spec == Init /\ [][Next]_vars

\* ------------------------------------------- two threads, no synchronisation
\* One thread calls Append, Remove and Swap, the other calls Get and holds the
\* slice Get returned.  Nothing orders the two: a step is one source line, and
\* the lines of the two threads interleave freely.  A panic ends the program.
WThr(pc, i, j, swap) ==
    [thr EXCEPT !.pc = pc, !.i = i, !.j = j, !.swap = swap, !.raced = @ \/ thr.rpc # "idle"]
RThr(rpc) == [thr EXCEPT !.rpc = rpc, !.raced = @ \/ thr.pc # "idle"]

Running == thr.pc # "panic"
Shared == <<heap, data, appendOnlyAlloc, clearsTail, view>>
Histories == <<rng, handed, ref, sinceGet, last>>

\* line 76: s.data = append(s.data, elem)
Append76 ==
    /\ Running /\ thr.pc = "idle"
    /\ data.len < MaxLen
    /\ \E elem \in Values :
         LET r == goAppend(heap, data, <<elem>>)
         IN  Settle(r.heap, r.sl, appendOnlyAlloc, view)
    /\ thr' = WThr("idle", 0, 0, Zero)
    /\ UNCHANGED Histories

\* line 82: if s.appendOnlyAlloc
Remove82 ==
    /\ Running /\ thr.pc = "idle"
    /\ \E index \in Indices :
         thr' = WThr(IF appendOnlyAlloc THEN "Remove83" ELSE "Remove88", index, 0, Zero)
    /\ UNCHANGED <<Shared, Histories>>

\* line 83: s.data = copyDeleteFromArray(s.data, index)
Remove83 ==
    /\ Running /\ thr.pc = "Remove83"
    /\ LET r == copyDeleteFromArray(heap, data, thr.i)
       IN  IF r.panic
           THEN thr' = WThr("panic", 0, 0, Zero) /\ UNCHANGED Shared
           ELSE thr' = WThr("Remove84", 0, 0, Zero)
                /\ Settle(r.heap, r.sl, appendOnlyAlloc, view)
    /\ UNCHANGED Histories

\* line 84: s.appendOnlyAlloc = false
Remove84 ==
    /\ Running /\ thr.pc = "Remove84"
    /\ Settle(heap, data, FALSE, view)
    /\ thr' = WThr("idle", 0, 0, Zero)
    /\ UNCHANGED Histories

\* line 88: s.data = slices.Delete(s.data, index, index+1)
Remove88 ==
    /\ Running /\ thr.pc = "Remove88"
    /\ LET r == slicesDelete(heap, data, thr.i, thr.i + 1, clearsTail)
       IN  IF r.panic
           THEN thr' = WThr("panic", 0, 0, Zero) /\ UNCHANGED Shared
           ELSE thr' = WThr("idle", 0, 0, Zero)
                /\ Settle(r.heap, r.sl, appendOnlyAlloc, view)
    /\ UNCHANGED Histories

\* lines 93-97: i # j; if s.appendOnlyAlloc
Swap97 ==
    /\ Running /\ thr.pc = "idle"
    /\ \E i \in Indices : \E j \in Indices \ {i} :
         thr' = WThr(IF appendOnlyAlloc THEN "Swap98" ELSE "Swap102", i, j, Zero)
    /\ UNCHANGED <<Shared, Histories>>

\* line 98: s.data = append([]T{}, s.data...)
Swap98 ==
    /\ Running /\ thr.pc = "Swap98"
    /\ LET r == goAppend(heap, NilSlice, Content(heap, data))
       IN  Settle(r.heap, r.sl, appendOnlyAlloc, view)
    /\ thr' = WThr("Swap99", thr.i, thr.j, Zero)
    /\ UNCHANGED Histories

\* line 99: s.appendOnlyAlloc = false
Swap99 ==
    /\ Running /\ thr.pc = "Swap99"
    /\ Settle(heap, data, FALSE, view)
    /\ thr' = WThr("Swap102", thr.i, thr.j, Zero)
    /\ UNCHANGED Histories

\* line 102: swap := s.data[i]
Swap102 ==
    /\ Running /\ thr.pc = "Swap102"
    /\ thr' = IF InRange(data, thr.i)
              THEN WThr("Swap103", thr.i, thr.j, heap[data.a][thr.i + 1])
              ELSE WThr("panic", 0, 0, Zero)
    /\ UNCHANGED <<Shared, Histories>>

\* line 103: s.data[i] = s.data[j]
Swap103 ==
    /\ Running /\ thr.pc = "Swap103"
    /\ IF InRange(data, thr.i) /\ InRange(data, thr.j)
       THEN /\ Settle([heap EXCEPT ![data.a][thr.i + 1] = heap[data.a][thr.j + 1]],
                      data, appendOnlyAlloc, view)
            /\ thr' = WThr("Swap104", thr.i, thr.j, thr.swap)
       ELSE thr' = WThr("panic", 0, 0, Zero) /\ UNCHANGED Shared
    /\ UNCHANGED Histories

\* line 104: s.data[j] = swap
Swap104 ==
    /\ Running /\ thr.pc = "Swap104"
    /\ IF InRange(data, thr.j)
       THEN /\ Settle([heap EXCEPT ![data.a][thr.j + 1] = thr.swap],
                      data, appendOnlyAlloc, view)
            /\ thr' = WThr("idle", 0, 0, Zero)
       ELSE thr' = WThr("panic", 0, 0, Zero) /\ UNCHANGED Shared
    /\ UNCHANGED Histories

\* line 111: s.appendOnlyAlloc = true
Get111 ==
    /\ Running /\ thr.rpc = "idle"
    /\ Settle(heap, data, TRUE, view)
    /\ thr' = RThr("Get112")
    /\ UNCHANGED Histories

\* line 112: return s.data; the caller holds the slice returned
Get112 ==
    /\ Running /\ thr.rpc = "Get112"
    /\ Settle(heap, data, appendOnlyAlloc,
              [held |-> TRUE, sl |-> data, snap |-> Content(heap, data)])
    /\ thr' = RThr("idle")
    /\ UNCHANGED Histories

NextConc ==
    \/ Append76
    \/ Remove82
    \/ Remove83
    \/ Remove84
    \/ Remove88
    \/ Swap97
    \/ Swap98
    \/ Swap99
    \/ Swap102
    \/ Swap103
    \/ Swap104
    \/ Get111
    \/ Get112

SpecConc == Init /\ [][NextConc]_vars

\* ================================================================ claims

\* C1: a slice Get returned keeps the length and the elements it had when Get
\* returned, whatever Append, Remove and Swap calls follow while it is held.
C1_ViewStable ==
    view.held => /\ view.sl.len = Len(view.snap)
                 /\ Content(heap, view.sl) = view.snap

\* an in-place Remove ran while the caller held a slice with other contents
C1_Witness ==
    /\ view.held /\ view.sl.len = 3 /\ view.sl.cap > view.sl.len
    /\ last.op = "Remove" /\ ~last.panic /\ ~last.copied /\ sinceGet = 2
    /\ Elems # view.snap

\* C2: what a fresh Get returns is what the same Append, Remove and Swap calls
\* make of a plain sequence, Get calls in between changing nothing.
C2_GetSeesAllChanges ==
    LET g == Get(Self) IN Content(g.m.heap, g.slice) = ref

\* Append v1 v2 v3, Get, Swap(0, 2): the copying Swap ran on three elements
C2_Witness ==
    /\ last.op = "Swap" /\ last.copied /\ ~last.panic
    /\ ref = <<2, 1, 1>> /\ view.held /\ view.snap = <<1, 1, 2>>

\* C3: no call changes a cell of a backing array that an earlier Get returned,
\* the cells between the returned length and the capacity included.
C3_ReturnedArrayUntouched == ~last.dirtied

\* C4: ranging over Get() and appending each element visited takes n
\* iterations, visits the n original elements in order, and leaves the
\* container holding the original sequence twice.
C4_AppendWhileRange ==
    /\ rng.kind = "append" =>
         /\ ~last.panic
         /\ view.sl.len = Len(rng.start)
         /\ rng.k <= Len(rng.start)
         /\ rng.visited = SubSeq(rng.start, 1, rng.k)
         /\ Elems = rng.start \o rng.visited
    /\ rng.kind = "appended" =>
         /\ rng.k = Len(rng.start)
         /\ rng.visited = rng.start
         /\ data.len = 2 * Len(rng.start)
         /\ view.snap = rng.start \o rng.start

\* the loop over three elements is over, and append grew the array inside it
C4_Witness ==
    /\ rng.kind = "appended" /\ rng.start = <<1, 2, 1>> /\ rng.k = 3
    /\ data.cap = 8

\* C5: ranging over Get() and calling Remove(0) in each iteration ends after n
\* iterations, no Remove(0) is out of range, and a Get made afterwards returns
\* an empty slice.
C5_RemoveWhileRange ==
    /\ rng.kind = "remove" =>
         /\ ~last.panic
         /\ rng.k <= Len(rng.start)
         /\ data.len = Len(rng.start) - rng.k
         /\ (rng.k < view.sl.len => ~Remove(Self, 0, clearsTail).panic)
    /\ rng.kind = "removed" =>
         /\ rng.k = Len(rng.start)
         /\ data.len = 0
         /\ view.snap = <<>>

C5_Witness ==
    rng.kind = "removed" /\ Len(rng.start) = 3 /\ rng.k = 3 /\ ~last.panic

\* C6: once a Remove or Swap(i # j) has run since the last Get, no Remove and
\* no Swap before the next Get copies: each works in place on the same array.
\* So between two Gets only the first such call can copy.
C6_CopyThenExclusive ==
    sinceGet > 0 =>
        /\ \A index \in Indices :
             LET r == Remove(Self, index, clearsTail)
             IN  ~r.copied /\ r.data.a = data.a
        /\ \A i \in Indices, j \in Indices :
             LET r == Swap(Self, i, j)
             IN  ~r.copied /\ r.data.a = data.a
        /\ last.copied => sinceGet = 1

\* the second Remove or Swap since the Get ran in place; the first had copied
C6_Witness ==
    /\ sinceGet = 2 /\ last.op \in {"Remove", "Swap"} /\ ~last.copied /\ ~last.panic
    /\ view.held /\ view.sl.a # 0 /\ view.sl.a # data.a /\ handed = {view.sl.a}

\* C7: Swap(i, i) with i in range changes nothing: not the elements, not the
\* backing array (no copy), not appendOnlyAlloc.
C7_SwapSelfNoOp ==
    /\ \A i \in Indices :
         Swap(Self, i, i) = Outcome(heap, data, appendOnlyAlloc, FALSE, FALSE)
    /\ (last.op = "Swap" /\ last.self) => ~last.copied /\ ~last.panic /\ ~last.dirtied

\* Swap(i, i) ran on a container whose array a held slice shares
C7_Witness ==
    /\ last.op = "Swap" /\ last.self /\ last.args = "in"
    /\ appendOnlyAlloc /\ view.held /\ view.sl.a = data.a /\ data.len = 2

\* C8: Swap(i, j), i # j both in range, keeps the length, exchanges the
\* elements at i and j and leaves every other position as it was, in the
\* copying branch and in place.
C8_SwapExchanges ==
    \A i \in Indices : \A j \in Indices \ {i} :
              LET r == Swap(Self, i, j)
                  q == Content(r.heap, r.data)
              IN  /\ ~r.panic
                  /\ r.data.len = data.len
                  /\ q[i + 1] = Elems[j + 1]
                  /\ q[j + 1] = Elems[i + 1]
                  /\ \A k \in Indices \ {i, j} : q[k + 1] = Elems[k + 1]
                  /\ r.copied = appendOnlyAlloc

C8_Witness ==
    /\ last.op = "Swap" /\ ~last.self /\ last.args = "in" /\ ~last.panic /\ last.copied
    /\ Elems = <<2, 1, 1>> /\ view.held /\ view.snap = <<1, 1, 2>>

\* C9: Remove(index), index in range, leaves the elements before index
\* followed by those after it, in both branches: the copying one gives a new
\* array of n-1 cells and clears the flag, the other keeps the array.
C9_RemoveDeletes ==
    \A index \in Indices :
              LET r == Remove(Self, index, clearsTail)
              IN  /\ ~r.panic
                  /\ r.data.len = data.len - 1
                  /\ Content(r.heap, r.data)
                       = [k \in 1..(data.len - 1) |->
                            IF k <= index THEN Elems[k] ELSE Elems[k + 1]]
                  /\ appendOnlyAlloc =>
                       /\ r.copied /\ ~r.appendOnlyAlloc
                       /\ r.data.a # data.a /\ r.data.cap = data.len - 1
                       /\ r.heap[data.a] = heap[data.a]
                  /\ ~appendOnlyAlloc =>
                       /\ ~r.copied /\ ~r.appendOnlyAlloc
                       /\ r.data.a = data.a /\ r.data.cap = data.cap

\* the copying Remove ran on a single element
C9_Witness ==
    /\ last.op = "Remove" /\ last.copied /\ ~last.panic
    /\ data.len = 0 /\ view.held /\ view.sl.len = 1

\* C10 as stated: every Remove and every Swap with an index out of range fails.
C10_Original ==
    (last.op \in {"Remove", "Swap"} /\ last.args = "out") => last.panic

\* C10, amended: Remove with an index out of range fails, and so does
\* Swap(i, j) with i # j and an index out of range; Swap(i, i) returns
\* normally whatever i is.
C10_OutOfRangeFails ==
    /\ (last.op \in {"Remove", "Swap"} /\ last.args = "out" /\ ~last.self) => last.panic
    /\ (last.op = "Swap" /\ last.self) => ~last.panic
    /\ \A i \in {-1, data.len, data.len + 1} : ~Swap(Self, i, i).panic
    /\ \A index \in {-1, data.len, data.len + 1} : Remove(Self, index, clearsTail).panic
    /\ \A i \in -1..(data.len + 1), j \in {-1, data.len, data.len + 1} :
         i # j => Swap(Self, i, j).panic /\ Swap(Self, j, i).panic

\* Swap(i, j), i # j, failed on a container Get had exposed, after copying
C10_Witness ==
    /\ last.op = "Swap" /\ last.args = "out" /\ ~last.self /\ last.panic /\ last.copied
    /\ data.len = 2

\* an index outside [0, len(data))
OutOfRange == {-1, data.len, data.len + 1}

\* C11: a Swap(i, j), i # j, with an index out of range fails and leaves the
\* backing array, the elements and appendOnlyAlloc exactly as they were, with
\* the flag set as well as with the flag clear.
C11_SwapNoPartialMutation ==
    /\ \A i \in -1..(data.len + 1), j \in OutOfRange :
         i # j => /\ Swap(Self, i, j) = Outcome(heap, data, appendOnlyAlloc, TRUE, FALSE)
                  /\ Swap(Self, j, i) = Outcome(heap, data, appendOnlyAlloc, TRUE, FALSE)
    /\ (last.op = "Swap" /\ last.panic) => ~last.copied

\* C12: Remove(index) with index out of range fails and leaves the backing
\* array, the elements, the length and appendOnlyAlloc exactly as they were,
\* in the copying branch and in place, on an empty container too.
C12_FailedRemoveState ==
    /\ \A index \in OutOfRange :
         Remove(Self, index, clearsTail) = Outcome(heap, data, appendOnlyAlloc, TRUE, FALSE)
    /\ (last.op = "Remove" /\ last.panic) => ~last.copied /\ ~last.dirtied /\ Elems = ref

C12_FailedRemoveStep ==
    (last'.op = "Remove" /\ last'.panic) =>
        /\ heap' = heap /\ data' = data /\ appendOnlyAlloc' = appendOnlyAlloc
        /\ view' = view /\ handed' = handed

C12_RemoveNoPartialMutation == [](C12_FailedRemoveState) /\ [][C12_FailedRemoveStep]_vars

\* Remove failed in the copying branch, on a container of two elements whose
\* array a held slice shares: the flag is still set
C12_Witness ==
    /\ last.op = "Remove" /\ last.args = "out" /\ last.panic
    /\ appendOnlyAlloc /\ data.len = 2 /\ view.held /\ view.sl.a = data.a

\* C13: Append(v) on n elements gives n+1 elements, v last and the first n as
\* they were, and leaves appendOnlyAlloc as it was.
C13_AppendFrame ==
    /\ \A elem \in Values :
         LET r == AppendElem(Self, elem)
         IN  /\ ~r.panic
             /\ r.data.len = data.len + 1
             /\ Content(r.heap, r.data) = Elems \o <<elem>>
             /\ r.appendOnlyAlloc = appendOnlyAlloc
    /\ last.op = "Append" => ~last.panic /\ ~last.copied /\ data.len > 0 /\ Elems = ref

\* Append ran in place on an array a held slice shares, the flag set
C13_Witness ==
    /\ last.op = "Append" /\ appendOnlyAlloc /\ data.len = 3 /\ data.cap = 4
    /\ view.held /\ view.sl.a = data.a /\ view.sl.len = 2 /\ Elems = <<1, 2, 1>>

\* C14: New gives an empty container with the flag clear; the flag is set
\* after every Get and goes from clear to set only in a Get; it goes from set
\* to clear only in a Remove or a Swap(i, j), i # j, that replaces data by a
\* fresh copy; after every Remove or Swap(i, j), i # j, that returns normally
\* the flag is clear.
C14_FlagState ==
    /\ New.data.len = 0 /\ ~New.appendOnlyAlloc
    /\ last.op = "New" => data = New.data /\ appendOnlyAlloc = New.appendOnlyAlloc
    /\ last.op = "Get" => appendOnlyAlloc
    /\ (last.op \in {"Remove", "Swap"} /\ ~last.self /\ ~last.panic) => ~appendOnlyAlloc

C14_FlagStep ==
    /\ (~appendOnlyAlloc /\ appendOnlyAlloc') => last'.op = "Get"
    /\ (appendOnlyAlloc /\ ~appendOnlyAlloc') =>
         last'.op \in {"Remove", "Swap"} /\ ~last'.self /\ last'.copied

C14_FlagMachine == [](C14_FlagState) /\ [][C14_FlagStep]_vars

\* the copying Remove cleared the flag that a Get had set
C14_Witness ==
    /\ last.op = "Remove" /\ last.copied /\ ~appendOnlyAlloc /\ sinceGet = 1
    /\ data.len = 2 /\ view.held /\ view.sl.len = 3 /\ handed = {view.sl.a}

\* C15: while the flag is clear no Get has ever returned the array of data;
\* so every Remove and Swap that works in place works on an array no Get has
\* returned, and changes no cell of an array some Get returned.
C15_ExclusiveNeverHanded ==
    /\ ~appendOnlyAlloc => data.a \notin handed
    /\ \A index \in Indices :
         ~Remove(Self, index, clearsTail).copied => data.a \notin handed
    /\ \A i \in Indices : \A j \in Indices \ {i} :
         ~Swap(Self, i, j).copied => data.a \notin handed
    /\ last.op \in {"Remove", "Swap"} => ~last.dirtied

\* Swap ran in place on three elements while an array a Get returned is held
C15_Witness ==
    /\ last.op = "Swap" /\ ~last.self /\ ~last.copied /\ ~last.panic
    /\ ~appendOnlyAlloc /\ data.len = 3 /\ data.a \notin handed
    /\ view.held /\ handed = {view.sl.a}

\* C16: a Get right after a Get returns the same slice (array, length,
\* elements) and leaves data, the array and the flag as the first Get left
\* them; no Get changes data or a cell of its array.
C16_GetTwice ==
    LET g1 == Get(Self)
        g2 == Get(g1.m)
    IN  /\ g1.slice = data /\ g2.slice = g1.slice
        /\ Content(g2.m.heap, g2.slice) = Content(g1.m.heap, g1.slice)
        /\ g2.m = g1.m
        /\ g1.m.heap = heap /\ g1.m.data = data

C16_GetStep ==
    /\ last'.op = "Get" =>
         /\ data' = data
         /\ data.a # 0 => heap'[data'.a] = heap[data.a]
    /\ last'.again =>
         /\ appendOnlyAlloc' = appendOnlyAlloc
         /\ (view.held /\ view.sl = data /\ view'.held) => view' = view

C16_GetIdempotent == [](C16_GetTwice) /\ [][C16_GetStep]_vars

\* a Get ran right after a Get, on three elements, and the caller holds what
\* one of them returned
C16_Witness ==
    /\ last.op = "Get" /\ last.again /\ appendOnlyAlloc
    /\ view.held /\ view.sl = data /\ view.snap = <<2, 2, 1>>

\* C19: after a Swap(i, j), i # j, that failed on an index out of range, the
\* elements a Get returns are those before the call, whichever index is out
\* of range and whether the flag was set or clear.
C19_FailedSwapKeepsElems ==
    /\ \A i \in -1..(data.len + 1), j \in OutOfRange :
         i # j => \A r \in {Swap(Self, i, j), Swap(Self, j, i)} :
                    LET g == Get(r)
                    IN  /\ r.panic
                        /\ g.slice.len = data.len
                        /\ Content(g.m.heap, g.slice) = Elems
    /\ (last.op = "Swap" /\ last.panic) => Elems = ref /\ ~last.dirtied

\* Swap(i, j) failed with one index in range, on two distinct elements
C19_Witness ==
    /\ last.op = "Swap" /\ last.panic /\ ~last.self /\ ~last.copied
    /\ Elems = <<1, 2>> /\ ~appendOnlyAlloc

\* C17: the loop that calls Get before each Remove(0) until Get returns an
\* empty slice, started on n elements, makes exactly n Remove calls, none out
\* of range, and ends with the container empty; every one of them takes the
\* copying branch and puts a new slice of len-1 cells in place of data.
C17_WhileGetRemove ==
    /\ rng.kind \in {"while", "whilebody", "whiled"} =>
         /\ ~last.panic
         /\ rng.k <= Len(rng.start)
         /\ Elems = SubSeq(rng.start, rng.k + 1, Len(rng.start))
    /\ rng.kind = "whilebody" =>
         LET r == Remove(Self, 0, clearsTail)
         IN  /\ rng.k < Len(rng.start)
             /\ ~r.panic /\ r.copied
             /\ r.data.a # data.a /\ r.data.cap = data.len - 1
             /\ r.heap[data.a] = heap[data.a]
    /\ (rng.kind = "while" /\ rng.k > 0) => last.op = "Remove" /\ last.copied
    /\ rng.kind = "whiled" =>
         /\ rng.k = Len(rng.start)
         /\ data.len = 0
         /\ view.snap = <<>>

\* the loop is over after three Remove calls
C17_Witness ==
    /\ rng.kind = "whiled" /\ rng.start = <<1, 2, 2>> /\ rng.k = 3
    /\ last.op = "Get" /\ data.len = 0

\* C18: with two threads and no synchronisation a slice Get returned can lose
\* the contents it had when Get returned (the witness), and it does so only
\* when calls of the two threads overlapped: as long as every call ran from
\* start to end with no step of the other thread inside, the slice is intact.
C18_OnlyRacesBreakView ==
    (view.held /\ Content(heap, view.sl) # view.snap) => thr.raced

\* both threads are between calls, and the slice the Get thread holds no
\* longer has the elements it had when Get returned
C18_Witness ==
    /\ thr.pc = "idle" /\ thr.rpc = "idle"
    /\ view.held /\ view.sl.len = 3 /\ view.sl.a = data.a
    /\ Content(heap, view.sl) # view.snap
====
